---- MODULE Spec2Model ----
(***************************************************************************)
(* A model of cray-ipxe's build service (crayipxe/builder.py), its         *)
(* liveness timestamp store and heartbeat (crayipxe/liveness/              *)
(* ipxe_timestamp.py) and the liveness probe (crayipxe/liveness/__main__). *)
(*                                                                         *)
(* Time is counted in whole seconds.  The timestamp file is a whole-file   *)
(* JSON document: a writer opens it for writing (which truncates it) and   *)
(* writes the document when the file is closed, so a reader sees either no *)
(* file, an empty file or a complete document.                             *)
(*                                                                         *)
(* The __main__ block of builder.py (lines 507-509) constructs builders    *)
(* and calls none; the model is of a constructed X86Builder being called   *)
(* (BinaryBuilder.__call__), which is how the loop of lines 445-468 runs.  *)
(***************************************************************************)
EXTENDS Integers, Sequences, FiniteSets

(***************************************************************************)
(* Bounds of the model.                                                    *)
(***************************************************************************)
\* The clock of the timed specifications stops here.
MaxTime == 50
\* The largest step of the clock.
Quantum == 10
\* The largest time drawn for a record or a clock in SpecAlive.
PureMaxTime == 42
\* The largest touched_at drawn in SpecAlive.
PureMaxTouched == 2
\* How many times the upstream configuration changes.
MaxChanges == 1
\* How many temporary files a property creates.
MaxFiles == 2
\* How many times the clock is advanced in Spec and SpecCache.
MaxTicks == 2

(***************************************************************************)
(* Program constants.                                                      *)
(***************************************************************************)
\* os.getenv('IPXE_BUILD_TIME_LIMIT', 40)
IPXE_BUILD_TIME_LIMIT == 40
\* time.sleep(10) of liveliness_heartbeat
HEARTBEAT_INTERVAL == 10
\* BinaryBuilder.CONFIGMAP_CACHE_TIMEOUT
CONFIGMAP_CACHE_TIMEOUT == 600
\* BinaryBuilder.TIME_BETWEEN_BUILDCHECKS
TIME_BETWEEN_BUILDCHECKS == 60
\* the default of token_min_remaining_valid_time, '1800'
DEFAULT_MIN_REMAINING_VALID_TIME == 1800

\* Python's None where a number is expected (every timestamp is >= 0).
None == -1

\* The max_age values a record is created with: the default and an
\* IPXE_BUILD_TIME_LIMIT override below the heartbeat interval.
SHORT_TIME_LIMIT == 5
MaxAges == {SHORT_TIME_LIMIT, IPXE_BUILD_TIME_LIMIT}

Min(a, b) == IF a <= b THEN a ELSE b

(***************************************************************************)
(* The timestamp file at LIVENESS_PATH.                                    *)
(***************************************************************************)
\* No file at the path.
Absent == [kind |-> "absent"]
\* The file just opened with mode 'w': it exists and is empty.
Truncated == [kind |-> "empty"]
\* The JSON document json.dump writes.
Record(ts, age, lb) ==
    [kind |-> "json", timestamp |-> ts, max_age |-> age, last_build |-> lb]

\* os.path.exists(path)
Exists(file) == file.kind # "absent"

\* ipxeTimestamp._data (getter): the parsed document; the dictionary of
\* Nones when there is no file; json.load raises JSONDecodeError on an
\* empty file.
JSONDecodeError == [kind |-> "JSONDecodeError"]
DataOf(file) ==
    IF file.kind = "absent" THEN Record(None, None, None)
    ELSE IF file.kind = "empty" THEN JSONDecodeError
    ELSE file

\* ipxeTimestamp.value (setter), lines 149-150: data = self._data;
\* data['timestamp'] = when
SetValue(data, when) == [data EXCEPT !.timestamp = when]

\* ipxeTimestamp.last_build (setter), lines 176-177: data = self._data;
\* data['last_build'] = when
SetLastBuild_touch(data, when) ==
    [data EXCEPT !.last_build = when, !.timestamp = when]
SetLastBuild(data, when) == [data EXCEPT !.last_build = when]

\* ipxeTimestamp.expiration_date: self.value + self.max_delta
expiration_date(rec) == rec.timestamp + rec.max_age

\* ipxeTimestamp.expired: datetime.now() > self.expiration_date
expired_at(rec, t) == t >= expiration_date(rec)
expired(rec, t) == t > expiration_date(rec)

\* ipxeTimestamp.recent_build: False when there was no build ('Never'),
\* else self.last_build_age < self.max_delta
recent_build(rec, t) ==
    IF rec.last_build = None THEN FALSE
    ELSE (t - rec.last_build) < rec.max_age

\* ipxeTimestamp.alive: any([not self.expired, self.recent_build]), of the
\* two values the properties returned
alive_all(isExpired, isRecent) == (~isExpired) /\ isRecent
alive(isExpired, isRecent) == (~isExpired) \/ isRecent

(***************************************************************************)
(* The settings configmap (cray-ipxe-settings, key settings.yaml), as the  *)
(* mapping safe_load returns.  A key that is not in the mapping is         *)
(* "absent" (None for a number).                                           *)
(***************************************************************************)
Settings(en, cert, name, dname, minValid) ==
    [enabled |-> en, debug_enabled |-> "absent", with_cert |-> cert,
     binary_name |-> name, debug_binary_name |-> dname, min_valid |-> minValid]

\* {}: the mapping with no key.
EmptySettings == Settings("absent", "absent", "absent", "absent", None)
\* cray_ipxe_build_x86: false
DisabledSettings == Settings("False", "absent", "ipxe.efi", "debug.efi", None)
\* no enablement key (the default applies), no certificate
DefaultSettings == Settings("absent", "absent", "ipxe.efi", "debug.efi", None)
\* cray_ipxe_build_x86: true, cray_ipxe_build_with_cert: true
CertSettings == Settings("True", "True", "ipxe.efi", "debug.efi", None)
\* cray_ipxe_token_min_remaining_valid_time: "500"
SHORT_MIN_VALID == 500
ShortValiditySettings ==
    Settings("absent", "absent", "ipxe.efi", "debug.efi", SHORT_MIN_VALID)

\* cray_ipxe_debug_enabled: false
DebugDisabledSettings == [DefaultSettings EXCEPT !.debug_enabled = "False"]

SettingsValues == {EmptySettings, DisabledSettings, DefaultSettings, CertSettings}

\* self._global_settings = None
NoneSettings == [none |-> TRUE]

\* Python's truth value of self._global_settings: None and {} are false.
Truthy(s) == s # NoneSettings /\ s # EmptySettings

\* dict.get(key, default) on the flags of the mapping
GetFlag(s, key, default) ==
    IF s[key] = "absent" THEN default ELSE s[key] = "True"

\* line 124: time.time() - self._global_settings_timestamp > CONFIGMAP_CACHE_TIMEOUT
CacheExpired(ts, t) == t - ts > CONFIGMAP_CACHE_TIMEOUT

\* line 131: local_settings != self._global_settings
SettingsChanged_always(local, current) == TRUE
SettingsChanged(local, current) == local # current

(***************************************************************************)
(* The other configmaps.  A value is the text under the key, or NoKey when *)
(* the key is not in the configmap (data.get returns None, data[...]       *)
(* raises KeyError).                                                       *)
(***************************************************************************)
NoKey == "None"
ScriptValues == {"A", "B", NoKey}
CertValues == {"A", "B", NoKey}
\* shell.ipxe goes through safe_load: a leading comment line ("#!ipxe")
\* is not part of the value parsed, so "#A" and "A" parse to the same text.
DebugValues == {"A", "#A", "B", NoKey}
safe_load(text) == IF text = "#A" THEN "A" ELSE text

(***************************************************************************)
(* Files NamedTemporaryFile creates in IPXE_BUILD_DIR.                     *)
(***************************************************************************)
\* NamedTemporaryFile never hands out a name twice: the names are numbered
\* per property in the order they are handed out.
Kinds == {"cert", "bss", "debug"}
Paths == Kinds \X (1..MaxFiles)
\* self._cert_path = None, and so on
NoPath == <<>>
\* A name not handed out yet.
Unused == "unused"
\* What open() finds at a name that was unlinked.
NoFile == "ENOENT"
FreePaths(fs, kind) == {p \in Paths : p[1] = kind /\ fs[p] = Unused}
NewPath(fs, kind) ==
    CHOOSE p \in FreePaths(fs, kind) : \A q \in FreePaths(fs, kind) : p[2] <= q[2]

(***************************************************************************)
(* Tokens: fetch_token returns None or the access token, a JWT with an     *)
(* expiration time.                                                        *)
(***************************************************************************)
NoToken == [kind |-> "None", exp |-> None]
Jwt(e) == [kind |-> "jwt", exp |-> e]
\* Lifetimes of the tokens the issuer hands out.
SHORT_TOKEN_LIFETIME == 1000
LONG_TOKEN_LIFETIME == 3600
TokenLifetimes == {SHORT_TOKEN_LIFETIME, LONG_TOKEN_LIFETIME}

\* A string jwt.decode rejects.
Undecodable == [kind |-> "undecodable", exp |-> None]
\* The tokens a builder may hold when its token is asked for: none, one that
\* cannot be decoded, one without an 'exp' claim, and tokens issued at 0.
TokenInputs ==
    {NoToken, Undecodable, Jwt(None)} \cup {Jwt(life) : life \in TokenLifetimes}

\* tokens.token_expiring_soon; the value is used as a condition (where the
\* function falls off its end it returns None, which is false).
token_expiring_soon_sum(bearer_token, min_remaining_valid_time, t) ==
    IF bearer_token.kind = "None" THEN TRUE
    ELSE IF bearer_token.kind = "undecodable" THEN TRUE
    ELSE IF bearer_token.exp = None THEN TRUE
    ELSE t >= bearer_token.exp + min_remaining_valid_time
token_expiring_soon_absent(bearer_token, min_remaining_valid_time, t) ==
    IF bearer_token.kind = "None" THEN FALSE
    ELSE IF bearer_token.kind = "undecodable" THEN TRUE
    ELSE IF bearer_token.exp = None THEN TRUE
    ELSE t >= bearer_token.exp - min_remaining_valid_time
token_expiring_soon(bearer_token, min_remaining_valid_time, t) ==
    IF bearer_token.kind = "None" THEN TRUE
    ELSE IF bearer_token.kind = "undecodable" THEN TRUE
    ELSE IF bearer_token.exp = None THEN TRUE
    ELSE LET tnow == t
             tmax == bearer_token.exp - min_remaining_valid_time
         IN  tnow >= tmax

VARIABLES
    now,        \* the wall clock (time.time(), datetime.now())
    ticks,      \* how often the clock was advanced
    tsFile,     \* the file at LIVENESS_PATH
    \* the configmaps
    upSettings, \* cray-ipxe-settings
    upCert,     \* cray-configmap-ca-public-key
    upBss,      \* cray-ipxe-bss-ipxe
    upDebug,    \* cray-ipxe-shell-ipxe
    nChanges,   \* how often a configmap was changed
    \* the BinaryBuilder object
    _global_settings,
    _global_settings_timestamp,
    _cert_path,
    _bss_script_path,
    _debug_script_path,
    _bearer_token,
    recreation_necessary,
    files,      \* the temporary files of the build directory: path -> text
    hist,       \* what the last read of a property did, after what the read
                \* before it did when that was a read of the same property
    \* BinaryBuilder.__init__ and __call__, the main thread
    time_limit, \* IPXE_BUILD_TIME_LIMIT of the environment
    ctlPc,      \* the line the main thread is at
    ctlExc,     \* the exception that ended the main thread
    ctlWhen,    \* the timestamp a write to the timestamp file is about to store
    ctlData,    \* data of the last_build setter
    ctlWake,    \* when time.sleep returns
    first_time,
    cmd,        \* the list the property under evaluation has built so far
    build_command,
    debug_command,
    cyc,        \* what the current poll cycle has done so far
    \* liveliness_heartbeat, the heartbeat thread
    hbPc,
    hbWhen,     \* the time refresh() passes to the value setter
    hbData,     \* data of the value setter
    hbWake,     \* when time.sleep returns
    \* the liveness probe process
    prPc,       \* its position
    prNow,      \* the probe's datetime.now() of the comparison under way
    prVal,      \* the probe's pending operand (self.value, self.last_build)
    prExpired,  \* the probe's value of self.expired
    prExit,     \* exit status of the last probe that ended (None: none yet)
    prExc,      \* the exception that ended it ("" when it ended by sys.exit)
    prStable,   \* neither the file nor the clock changed since the probe began
    prLive      \* the main thread was alive and the heartbeat thread running
                \* when the probe began

storeVars == <<now, tsFile>>
envVars == <<upSettings, upCert, upBss, upDebug, nChanges>>
builderVars == <<_global_settings, _global_settings_timestamp, _cert_path,
                 _bss_script_path, _debug_script_path, _bearer_token,
                 recreation_necessary, files, hist>>
ctlVars == <<time_limit, ctlPc, ctlExc, ctlWhen, ctlData, ctlWake, first_time,
             cmd, build_command, debug_command, cyc>>
hbVars == <<hbPc, hbWhen, hbData, hbWake>>
probeVars == <<prPc, prNow, prVal, prExpired, prExit, prExc, prStable,
               prLive>>
vars == <<storeVars, ticks, envVars, builderVars, ctlVars, hbVars, probeVars>>

(***************************************************************************)
(* The properties of BinaryBuilder that track an upstream value.  Each is  *)
(* one step of its caller; ok says whether the remote read succeeds.  A    *)
(* read appends to hist what it did: whether it issued the remote read,    *)
(* whether it assigned recreation_necessary, the exception it raised (""   *)
(* when it returned), the local copy before and after and the value read,  *)
(* and for the settings, the one property with a clock, the time.          *)
(***************************************************************************)
Event(kind, fetched, setFlag, exc, ts, before, value, after) ==
    [kind |-> kind, t |-> IF kind = "settings" THEN now ELSE None,
     fetched |-> fetched, setFlag |-> setFlag,
     exc |-> exc, ts |-> ts, before |-> before, value |-> value,
     after |-> after]

Push(e) ==
    IF hist # <<>> /\ hist[Len(hist)].kind = e.kind
      THEN <<hist[Len(hist)], e>>
      ELSE <<e>>

\* lines 131-135: if local_settings != self._global_settings:
\*                    self.recreation_necessary = True
Flagged_assigned(changed) == changed
Flagged(changed) == IF changed THEN TRUE ELSE recreation_necessary

\* BinaryBuilder.global_settings
global_settings(ok) ==
    LET local_settings == _global_settings
        \* time.time() is never 0.0, so the timestamp is true when it is set
        old == /\ Truthy(_global_settings)
               /\ _global_settings_timestamp # None
               /\ CacheExpired(_global_settings_timestamp, now)
        kept == IF old THEN NoneSettings ELSE _global_settings
        keptTs == IF old THEN None ELSE _global_settings_timestamp
        fetch == ~Truthy(kept)
    IN  /\ IF fetch /\ ~ok
             THEN \* read_namespaced_config_map raises: nothing is assigned
                  /\ _global_settings' = kept
                  /\ _global_settings_timestamp' = keptTs
                  /\ UNCHANGED recreation_necessary
                  /\ hist' = Push(Event("settings", TRUE, FALSE, "ApiException",
                                        keptTs, local_settings, NoneSettings, kept))
             ELSE LET current == IF fetch THEN upSettings ELSE kept
                      currentTs == IF fetch THEN now ELSE keptTs
                      changed == SettingsChanged(local_settings, current)
                  IN  /\ _global_settings' = current
                      /\ _global_settings_timestamp' = currentTs
                      /\ recreation_necessary' = Flagged(changed)
                      /\ hist' = Push(Event("settings", fetch, changed, "",
                                            currentTs, local_settings, current,
                                            current))
        /\ UNCHANGED <<_cert_path, _bss_script_path, _debug_script_path,
                       _bearer_token, files>>

\* BinaryBuilder.enabled
enabled_always(settings) == TRUE
enabled(settings) == GetFlag(settings, "enabled", TRUE)

\* BinaryBuilder.debug_enabled; __call__ and the two commands do not read it
debug_enabled(settings) == GetFlag(settings, "debug_enabled", TRUE)

\* BinaryBuilder.build_with_certs: the value is used as a condition
build_with_certs(settings) == GetFlag(settings, "with_cert", FALSE)

\* BinaryBuilder.token_min_remaining_valid_time, through int()
token_min_remaining_valid_time(settings) ==
    IF settings.min_valid = None THEN DEFAULT_MIN_REMAINING_VALID_TIME
    ELSE settings.min_valid

\* A property that changes nothing but raises exc.
Raises(kind, exc, fetched, before) ==
    /\ hist' = Push(Event(kind, fetched, FALSE, exc, None, before, NoKey, before))
    /\ UNCHANGED <<_global_settings, _global_settings_timestamp, _cert_path,
                   _bss_script_path, _debug_script_path, _bearer_token,
                   recreation_necessary, files>>

\* BinaryBuilder.cert_path
cert_path(ok) ==
    LET existing_cert == IF _cert_path = NoPath THEN NoKey ELSE files[_cert_path]
        upstream_cert == upCert
    IN  IF existing_cert = NoFile
          THEN Raises("cert", "FileNotFoundError", FALSE, existing_cert)
        ELSE IF ~ok THEN Raises("cert", "ApiException", TRUE, existing_cert)
        ELSE IF upstream_cert = NoKey
          THEN Raises("cert", "KeyError", TRUE, existing_cert)
        ELSE IF existing_cert # upstream_cert
          THEN LET unlinked == IF _cert_path # NoPath
                                 THEN [files EXCEPT ![_cert_path] = NoFile]
                                 ELSE files
                   name == NewPath(unlinked, "cert")
               IN  /\ FreePaths(unlinked, "cert") # {}
                   /\ recreation_necessary' = TRUE
                   /\ files' = [unlinked EXCEPT ![name] = upstream_cert]
                   /\ _cert_path' = name
                   /\ hist' = Push(Event("cert", TRUE, TRUE, "", None,
                                         existing_cert, upstream_cert,
                                         upstream_cert))
                   /\ UNCHANGED <<_global_settings, _global_settings_timestamp,
                                  _bss_script_path, _debug_script_path,
                                  _bearer_token>>
          ELSE /\ hist' = Push(Event("cert", TRUE, FALSE, "", None,
                                     existing_cert, upstream_cert, existing_cert))
               /\ UNCHANGED <<_global_settings, _global_settings_timestamp,
                              _cert_path, _bss_script_path, _debug_script_path,
                              _bearer_token, recreation_necessary, files>>

\* BinaryBuilder.bss_script_path
bss_script_path(ok) ==
    LET local_bss_script ==
            IF _bss_script_path = NoPath THEN NoKey ELSE files[_bss_script_path]
        upstream_bss_script == upBss
    IN  IF local_bss_script = NoFile
          THEN Raises("bss", "FileNotFoundError", FALSE, local_bss_script)
        ELSE IF ~ok THEN Raises("bss", "ApiException", TRUE, local_bss_script)
        ELSE IF local_bss_script # upstream_bss_script
          THEN LET unlinked == IF _bss_script_path # NoPath
                                 THEN [files EXCEPT ![_bss_script_path] = NoFile]
                                 ELSE files
                   name == NewPath(unlinked, "bss")
               IN  /\ FreePaths(unlinked, "bss") # {}
                   /\ IF upstream_bss_script = NoKey
                        THEN \* ntf.write(None) raises TypeError: the new
                             \* file stays, empty, and the path is not assigned
                             /\ files' = [unlinked EXCEPT ![name] = ""]
                             /\ hist' = Push(Event("bss", TRUE, FALSE, "TypeError",
                                                   None, local_bss_script,
                                                   upstream_bss_script, NoFile))
                             /\ UNCHANGED <<_bss_script_path, recreation_necessary>>
                        ELSE /\ files' = [unlinked EXCEPT ![name] = upstream_bss_script]
                             /\ _bss_script_path' = name
                             /\ recreation_necessary' = TRUE
                             /\ hist' = Push(Event("bss", TRUE, TRUE, "", None,
                                                   local_bss_script,
                                                   upstream_bss_script,
                                                   upstream_bss_script))
                   /\ UNCHANGED <<_global_settings, _global_settings_timestamp,
                                  _cert_path, _debug_script_path, _bearer_token>>
          ELSE /\ hist' = Push(Event("bss", TRUE, FALSE, "", None,
                                     local_bss_script, upstream_bss_script,
                                     local_bss_script))
               /\ UNCHANGED <<_global_settings, _global_settings_timestamp,
                              _cert_path, _bss_script_path, _debug_script_path,
                              _bearer_token, recreation_necessary, files>>

\* BinaryBuilder.debug_script_path
debug_script_path(ok) ==
    LET local_debug_script ==
            IF _debug_script_path = NoPath THEN NoKey ELSE files[_debug_script_path]
    IN  IF local_debug_script = NoFile
          THEN Raises("debug", "FileNotFoundError", FALSE, local_debug_script)
        ELSE IF ~ok THEN Raises("debug", "ApiException", TRUE, local_debug_script)
        ELSE IF upDebug = NoKey
          THEN \* safe_load(None)
               Raises("debug", "AttributeError", TRUE, local_debug_script)
        ELSE LET upstream_debug_script == safe_load(upDebug) IN
          IF local_debug_script # upstream_debug_script
          THEN LET unlinked == IF _debug_script_path # NoPath
                                 THEN [files EXCEPT ![_debug_script_path] = NoFile]
                                 ELSE files
                   name == NewPath(unlinked, "debug")
               IN  /\ FreePaths(unlinked, "debug") # {}
                   /\ files' = [unlinked EXCEPT ![name] = upstream_debug_script]
                   /\ _debug_script_path' = name
                   /\ recreation_necessary' = TRUE
                   /\ hist' = Push(Event("debug", TRUE, TRUE, "", None,
                                         local_debug_script,
                                         upstream_debug_script,
                                         upstream_debug_script))
                   /\ UNCHANGED <<_global_settings, _global_settings_timestamp,
                                  _cert_path, _bss_script_path, _bearer_token>>
          ELSE /\ hist' = Push(Event("debug", TRUE, FALSE, "", None,
                                     local_debug_script, upstream_debug_script,
                                     local_debug_script))
               /\ UNCHANGED <<_global_settings, _global_settings_timestamp,
                              _cert_path, _bss_script_path, _debug_script_path,
                              _bearer_token, recreation_necessary, files>>

\* BinaryBuilder.bearer_token, lines 321-323: fetch_token, which returns the
\* token or None, or raises (raised); then os.utime and the flag.
TokenOutcomes == {NoToken} \cup {Jwt(now + life) : life \in TokenLifetimes}
fetch_bearer_token(raised, token) ==
    IF raised
      THEN Raises("token", "RequestException", TRUE, _bearer_token)
      ELSE /\ _bearer_token' = token
           /\ recreation_necessary' = TRUE
           /\ hist' = Push(Event("token", TRUE, TRUE, "", None, _bearer_token,
                                 token, token))
           /\ UNCHANGED <<_global_settings, _global_settings_timestamp,
                          _cert_path, _bss_script_path, _debug_script_path,
                          files>>

(***************************************************************************)
(* The liveness probe: python -m crayipxe.liveness.  alive evaluates       *)
(* expired and recent_build; every property reads the file again.          *)
(***************************************************************************)
\* The lines of liveliness_heartbeat a started thread is at until it returns.
HbRunning == {"l293", "l295", "l149", "l126", "l127", "l299"}

\* The probe ends with an uncaught exception: the interpreter exits with 1.
ProbeRaise(exc) ==
    /\ prPc' = "exit"
    /\ prExit' = 1
    /\ prExc' = exc
    /\ prNow' = None /\ prVal' = None
    /\ UNCHANGED <<prExpired, prStable, prLive>>

\* The probe ends by sys.exit(status).
ProbeExit(status) ==
    /\ prPc' = "exit"
    /\ prExit' = status
    /\ prExc' = ""
    /\ prNow' = None /\ prVal' = None
    /\ UNCHANGED <<prExpired, prStable, prLive>>

\* A new probe process is started.
ProbeStart ==
    /\ prPc \in {"idle", "exit"}
    /\ prPc' = "byref"
    /\ prStable' = TRUE
    /\ prLive' = (ctlPc # "dead" /\ hbPc \in HbRunning)
    /\ prExpired' = FALSE
    /\ UNCHANGED <<prNow, prVal, prExit, prExc, storeVars>>

\* ipxeTimestamp.byref: raises ipxeTimestampNoEnt when the path does not
\* exist, which __main__ turns into sys.exit(1).
ProbeByref_created ==
    /\ prPc = "byref"
    /\ IF Exists(tsFile)
         THEN /\ prPc' = "value"
              /\ UNCHANGED <<prNow, prVal, prExpired, prExit, prExc, prStable, prLive>>
         ELSE ProbeExit(0)
    /\ UNCHANGED storeVars
ProbeByref_init ==
    /\ prPc = "byref"
    /\ prPc' = "value"
    /\ tsFile' = IF Exists(tsFile) THEN tsFile
                  ELSE Record(now, IPXE_BUILD_TIME_LIMIT, None)
    /\ UNCHANGED <<now, prNow, prVal, prExpired, prExit, prExc, prStable, prLive>>
ProbeByref ==
    /\ prPc = "byref"
    /\ IF Exists(tsFile)
         THEN /\ prPc' = "value"
              /\ UNCHANGED <<prNow, prVal, prExpired, prExit, prExc, prStable, prLive>>
         ELSE ProbeExit(1)
    /\ UNCHANGED storeVars

\* expired: datetime.now(), then self.value of expiration_date.
ProbeValue ==
    /\ prPc = "value"
    /\ LET data == DataOf(tsFile) IN
         IF data = JSONDecodeError THEN ProbeRaise("JSONDecodeError")
         ELSE IF data.timestamp = None THEN ProbeRaise("TypeError")
         ELSE /\ prPc' = "max_delta"
              /\ prNow' = now
              /\ prVal' = data.timestamp
              /\ UNCHANGED <<prExpired, prExit, prExc, prStable, prLive>>
    /\ UNCHANGED storeVars

\* expired: self.max_delta of expiration_date, then the comparison.
ProbeMaxDelta ==
    /\ prPc = "max_delta"
    /\ LET data == DataOf(tsFile) IN
         IF data = JSONDecodeError THEN ProbeRaise("JSONDecodeError")
         ELSE IF data.max_age = None THEN ProbeRaise("TypeError")
         ELSE /\ prPc' = "last_build1"
              /\ prExpired' = expired(Record(prVal, data.max_age, None), prNow)
              /\ prNow' = None /\ prVal' = None
              /\ UNCHANGED <<prExit, prExc, prStable, prLive>>
    /\ UNCHANGED storeVars

\* recent_build: the four reads of self.last_build.  last_build_age is
\* evaluated twice, and each evaluation reads last_build for the test
\* "if not last_build" and again for the subtraction.  With no build the
\* first evaluation is 'Never' and recent_build is False.
ProbeLastBuild ==
    /\ prPc \in {"last_build1", "last_build2", "last_build3", "last_build4"}
    /\ LET data == DataOf(tsFile) IN
         IF data = JSONDecodeError THEN ProbeRaise("JSONDecodeError")
         ELSE IF data.last_build = None
           THEN IF prPc = "last_build1"
                  THEN ProbeExit(IF alive(prExpired, FALSE) THEN 0 ELSE 1)
                  ELSE ProbeRaise("TypeError")
           ELSE /\ prPc' = CASE prPc = "last_build1" -> "last_build2"
                             [] prPc = "last_build2" -> "last_build3"
                             [] prPc = "last_build3" -> "last_build4"
                             [] prPc = "last_build4" -> "max_delta2"
                /\ IF prPc = "last_build4"
                     THEN prNow' = now /\ prVal' = data.last_build
                     ELSE UNCHANGED <<prNow, prVal>>
                /\ UNCHANGED <<prExpired, prExit, prExc, prStable, prLive>>
    /\ UNCHANGED storeVars

\* recent_build: self.last_build_age < self.max_delta, then alive and the
\* exit status.
ProbeMaxDelta2 ==
    /\ prPc = "max_delta2"
    /\ LET data == DataOf(tsFile) IN
         IF data = JSONDecodeError THEN ProbeRaise("JSONDecodeError")
         ELSE IF data.max_age = None THEN ProbeRaise("TypeError")
         ELSE ProbeExit(IF alive(prExpired,
                                 recent_build(Record(None, data.max_age, prVal), prNow))
                          THEN 0 ELSE 1)
    /\ UNCHANGED storeVars

Probe ==
    \/ ProbeStart
    \/ ProbeByref
    \/ ProbeValue
    \/ ProbeMaxDelta
    \/ ProbeLastBuild
    \/ ProbeMaxDelta2

ProbeInit ==
    /\ prPc = "idle"
    /\ prNow = None /\ prVal = None /\ prExpired = FALSE
    /\ prExit = None /\ prExc = "" /\ prStable = TRUE /\ prLive = FALSE

(***************************************************************************)
(* The main thread: BinaryBuilder.__init__ (the timestamp file it writes)  *)
(* and BinaryBuilder.__call__.  ctlPc is the source line the thread is at; *)
(* the lines of build_command and debug_command are those of the property  *)
(* each reads.  An exception no handler catches ends the thread.           *)
(***************************************************************************)
\* X86Builder.MAKE_ADDENDUM
MAKE_ADDENDUM == <<>>

\* What a poll cycle has done: the artifacts it fetched, the artifacts whose
\* read assigned recreation_necessary, the flag when the cycle began, the
\* enablement key as line 451 found it, recreation_necessary as line 457
\* found it, and the build events in order.
NewCycle(flag) ==
    [fetched |-> {}, assigned |-> {}, flag0 |-> flag, enabledKey |-> "unread",
     decided |-> "unread", events |-> <<>>]
CycAfter(c, e) ==
    [c EXCEPT !.fetched = @ \cup (IF e.fetched THEN {e.kind} ELSE {}),
              !.assigned = @ \cup (IF e.setFlag THEN {e.kind} ELSE {})]
CycEvent(c, what) == [c EXCEPT !.events = Append(@, what)]

\* Line 448: if not first_time: time.sleep(self.TIME_BETWEEN_BUILDCHECKS)
Sleeps_never(first) == FALSE
Sleeps(first) == ~first

\* Line 457: if not self.recreation_necessary: continue
NoRecreation_never(flag) == FALSE
NoRecreation(flag) == ~flag

\* Line 455 and 456: "a, b = <list>" needs a list of exactly two items.
Unpacks(list) == Len(list) = 2

\* The main thread evaluates a property (read) in cycle record c and goes on
\* at next, unless the property raised.
CtlRead(read, c, next) ==
    /\ read
    /\ LET e == hist'[Len(hist')] IN
         /\ cyc' = CycAfter(c, e)
         /\ IF e.exc # ""
              THEN ctlPc' = "dead" /\ ctlExc' = e.exc
              ELSE ctlPc' = next /\ UNCHANGED ctlExc

\* The lines of build_command (debug = FALSE) and debug_command.
CmdLine(debug, line) ==
    IF debug
      THEN CASE line = "certs" -> "l370" [] line = "cert_path" -> "l371"
             [] line = "script" -> "l374" [] line = "s3_host" -> "l375"
             [] line = "token_min" -> "l378" [] line = "token_host" -> "l378h"
             [] line = "fetch_token" -> "l378f" [] line = "token" -> "l378a"
             [] line = "unpack" -> "l456"
      ELSE CASE line = "certs" -> "l342" [] line = "cert_path" -> "l343"
             [] line = "script" -> "l346" [] line = "s3_host" -> "l347"
             [] line = "token_min" -> "l350" [] line = "token_host" -> "l350h"
             [] line = "fetch_token" -> "l350f" [] line = "token" -> "l350a"
             [] line = "unpack" -> "l455"

\* One step of the build_command or debug_command property.
CommandStep(debug) ==
    /\ UNCHANGED <<ctlWhen, ctlData, ctlWake, first_time, build_command,
                   debug_command, tsFile, prStable, hbPc>>
    /\ CASE ctlPc = CmdLine(debug, "certs") ->
              \* the list so far, then self.build_with_certs
              /\ cmd' = <<"make", "bin-x86_64-efi/ipxe.efi">> \o MAKE_ADDENDUM
                           \o <<IF debug THEN "DEBUG=httpcore:2,x509:2,efi_time"
                                         ELSE "DEBUG=httpcore,x509,efi_time">>
              /\ \E ok \in BOOLEAN :
                   CtlRead(global_settings(ok), cyc,
                           IF build_with_certs(_global_settings')
                             THEN CmdLine(debug, "cert_path")
                             ELSE CmdLine(debug, "script"))
         [] ctlPc = CmdLine(debug, "cert_path") ->
              /\ cmd' = cmd \o <<"CERT=cert", "TRUST=cert">>
              /\ \E ok \in BOOLEAN :
                   CtlRead(cert_path(ok), cyc, CmdLine(debug, "script"))
         [] ctlPc = CmdLine(debug, "script") ->
              /\ cmd' = Append(cmd, "EMBED=script")
              /\ \E ok \in BOOLEAN :
                   /\ IF debug THEN debug_script_path(ok) ELSE bss_script_path(ok)
                   /\ LET e == hist'[Len(hist')]
                          path == IF debug THEN _debug_script_path'
                                           ELSE _bss_script_path'
                      IN  /\ cyc' = CycAfter(cyc, e)
                          /\ IF e.exc # ""
                               THEN ctlPc' = "dead" /\ ctlExc' = e.exc
                             ELSE IF path = NoPath
                               THEN \* os.path.basename(None)
                                    ctlPc' = "dead" /\ ctlExc' = "TypeError"
                             ELSE /\ ctlPc' = CmdLine(debug, "s3_host")
                                  /\ UNCHANGED ctlExc
         [] ctlPc = CmdLine(debug, "s3_host") ->
              \* s3_host reads sts-rados-config and catches its errors
              /\ \E host \in BOOLEAN :
                   cmd' = IF host THEN Append(cmd, "S3_HOST=host") ELSE cmd
              /\ ctlPc' = CmdLine(debug, "token_min")
              /\ UNCHANGED <<builderVars, ctlExc, cyc>>
         [] ctlPc = CmdLine(debug, "token_min") ->
              \* token_expiring_soon(self._bearer_token,
              \*                     self.token_min_remaining_valid_time)
              /\ UNCHANGED cmd
              /\ \E ok \in BOOLEAN :
                   CtlRead(global_settings(ok), cyc,
                           IF token_expiring_soon(_bearer_token,
                                 token_min_remaining_valid_time(_global_settings'),
                                 now)
                             THEN CmdLine(debug, "token_host")
                             ELSE CmdLine(debug, "token"))
         [] ctlPc = CmdLine(debug, "token_host") ->
              \* self.cray_ipxe_token_host
              /\ UNCHANGED cmd
              /\ \E ok \in BOOLEAN :
                   CtlRead(global_settings(ok), cyc, CmdLine(debug, "fetch_token"))
         [] ctlPc = CmdLine(debug, "fetch_token") ->
              /\ UNCHANGED cmd
              /\ \E raised \in BOOLEAN, token \in TokenOutcomes :
                   CtlRead(fetch_bearer_token(raised, token), cyc,
                           CmdLine(debug, "token"))
         [] ctlPc = CmdLine(debug, "token") ->
              /\ cmd' = Append(cmd, "BEARER_TOKEN=token")
              /\ ctlPc' = CmdLine(debug, "unpack")
              /\ UNCHANGED <<builderVars, ctlExc, cyc>>

CommandLines(debug) ==
    {CmdLine(debug, l) : l \in {"certs", "cert_path", "script", "s3_host",
                                "token_min", "token_host", "fetch_token",
                                "token"}}

\* ipxeTimestamp.last_build (setter) as refresh_build calls it, in three
\* steps: data = self._data, open(self.path, 'w'), json.dump.
RefreshBuildLines == {"l462", "l462o", "l462d", "l465", "l465o", "l465d"}
RefreshBuildStep ==
    /\ UNCHANGED <<builderVars, ctlWake, first_time, cmd, build_command,
                   debug_command, hbPc>>
    /\ CASE ctlPc \in {"l462", "l465"} ->
              LET data == DataOf(tsFile) IN
                IF data = JSONDecodeError
                  THEN /\ ctlPc' = "dead" /\ ctlExc' = "JSONDecodeError"
                       /\ UNCHANGED <<ctlWhen, ctlData, cyc, tsFile, prStable>>
                  ELSE /\ ctlWhen' = now
                       /\ ctlData' = SetLastBuild(data, now)
                       /\ ctlPc' = IF ctlPc = "l462" THEN "l462o" ELSE "l465o"
                       /\ UNCHANGED <<ctlExc, cyc, tsFile, prStable>>
         [] ctlPc \in {"l462o", "l465o"} ->
              /\ tsFile' = Truncated
              /\ prStable' = FALSE
              /\ ctlPc' = IF ctlPc = "l462o" THEN "l462d" ELSE "l465d"
              /\ UNCHANGED <<ctlExc, ctlWhen, ctlData, cyc>>
         [] ctlPc \in {"l462d", "l465d"} ->
              /\ tsFile' = ctlData
              /\ prStable' = FALSE
              /\ cyc' = CycEvent(cyc, "refresh_build")
              /\ ctlPc' = IF ctlPc = "l462d" THEN "l463" ELSE "l468"
              /\ UNCHANGED <<ctlExc, ctlWhen, ctlData>>

\* The exit statuses of make: success, an error of make, and a make killed
\* by a signal (subprocess reports the negated signal number).
ExitStatuses == {0, 2, -9}

\* subprocess.check_call raises CalledProcessError when the exit status of
\* the command is not zero.
check_call_unchecked(status) == FALSE
check_call_negative(status) == status < 0
check_call(status) == status # 0

\* build_binary: subprocess.check_call starts make and waits for it.  The
\* cycle records a make that ended with status 0 ("build", "debug_build") and
\* one that ended with another status ("build_failed", "debug_failed").
BuildLines == {"l460", "l460w", "l463", "l463w"}
BuildStep ==
    /\ UNCHANGED <<builderVars, ctlData, ctlWake, first_time, cmd, build_command,
                   debug_command, tsFile, prStable, hbPc>>
    /\ CASE ctlPc \in {"l460", "l463"} ->
              /\ ctlWhen' = now
              /\ ctlPc' = IF ctlPc = "l460" THEN "l460w" ELSE "l463w"
              /\ UNCHANGED <<ctlExc, cyc>>
         [] ctlPc \in {"l460w", "l463w"} ->
              /\ UNCHANGED ctlWhen
              /\ \E status \in ExitStatuses :
                   /\ cyc' = CycEvent(cyc,
                                CASE ctlPc = "l460w" /\ status = 0 -> "build"
                                  [] ctlPc = "l460w" /\ status # 0 -> "build_failed"
                                  [] ctlPc = "l463w" /\ status = 0 -> "debug_build"
                                  [] OTHER -> "debug_failed")
                   /\ IF check_call(status)
                        THEN ctlPc' = "dead" /\ ctlExc' = "CalledProcessError"
                        ELSE /\ ctlPc' = IF ctlPc = "l460w" THEN "l461" ELSE "l464"
                             /\ UNCHANGED ctlExc

\* publish_binary and publish_debug: the destination reads binary_name or
\* debug_binary_name from the settings and asserts that it is set.
PublishLines == {"l461", "l464"}
PublishStep ==
    /\ UNCHANGED <<ctlWhen, ctlData, ctlWake, first_time, cmd, build_command,
                   debug_command, tsFile, prStable, hbPc>>
    /\ \E ok \in BOOLEAN :
         /\ global_settings(ok)
         /\ LET e == hist'[Len(hist')]
                name == IF ctlPc = "l461" THEN _global_settings'.binary_name
                        ELSE _global_settings'.debug_binary_name
            IN  IF e.exc # ""
                  THEN /\ ctlPc' = "dead" /\ ctlExc' = e.exc
                       /\ cyc' = CycAfter(cyc, e)
                ELSE IF name = "absent"
                  THEN /\ ctlPc' = "dead" /\ ctlExc' = "AssertionError"
                       /\ cyc' = CycAfter(cyc, e)
                ELSE /\ ctlPc' = IF ctlPc = "l461" THEN "l462" ELSE "l465"
                     /\ cyc' = CycEvent(CycAfter(cyc, e),
                                        IF ctlPc = "l461" THEN "publish"
                                                          ELSE "debug_publish")
                     /\ UNCHANGED ctlExc

\* BinaryBuilder.__init__ (the timestamp file of ipxeTimestamp.__init__) and
\* BinaryBuilder.__call__.
Call ==
    /\ ctlPc # "dead"
    /\ UNCHANGED <<time_limit, now, ticks, envVars, hbWhen, hbData, hbWake,
                   prPc, prNow, prVal, prExpired, prExit, prExc, prLive>>
    /\ CASE ctlPc = "l74" ->
              \* ipxeTimestamp.__init__: the timestamp, then open(path, 'w')
              /\ ctlWhen' = now
              /\ tsFile' = Truncated
              /\ prStable' = FALSE
              /\ ctlPc' = "l79"
              /\ UNCHANGED <<builderVars, ctlExc, ctlData, ctlWake, first_time,
                             cmd, build_command, debug_command, cyc, hbPc>>
         [] ctlPc = "l79" ->
              \* json.dump and the end of the with block
              /\ tsFile' = Record(ctlWhen, time_limit, None)
              /\ prStable' = FALSE
              /\ ctlPc' = "l443"
              /\ UNCHANGED <<builderVars, ctlExc, ctlWhen, ctlData, ctlWake,
                             first_time, cmd, build_command, debug_command, cyc,
                             hbPc>>
         [] ctlPc = "l443" ->
              \* self.heartbeat.start()
              /\ hbPc' = "l293"
              /\ ctlPc' = "l446"
              /\ UNCHANGED <<builderVars, ctlExc, ctlWhen, ctlData, ctlWake,
                             first_time, cmd, build_command, debug_command, cyc,
                             tsFile, prStable>>
         [] ctlPc = "l446" ->
              \* the top of the loop: set_log_level reads the settings
              /\ \E ok \in BOOLEAN :
                   CtlRead(global_settings(ok), NewCycle(recreation_necessary),
                           "l448")
              /\ UNCHANGED <<ctlWhen, ctlData, ctlWake, first_time, cmd,
                             build_command, debug_command, tsFile, prStable,
                             hbPc>>
         [] ctlPc = "l448" ->
              /\ IF Sleeps(first_time)
                   THEN ctlPc' = "l449"
                        /\ ctlWake' = now + TIME_BETWEEN_BUILDCHECKS
                   ELSE ctlPc' = "l451" /\ UNCHANGED ctlWake
              /\ first_time' = FALSE
              /\ UNCHANGED <<builderVars, ctlExc, ctlWhen, ctlData, cmd,
                             build_command, debug_command, cyc, tsFile,
                             prStable, hbPc>>
         [] ctlPc = "l449" ->
              \* time.sleep returns
              /\ now >= ctlWake
              /\ ctlPc' = "l451"
              /\ UNCHANGED <<builderVars, ctlExc, ctlWhen, ctlData, ctlWake,
                             first_time, cmd, build_command, debug_command, cyc,
                             tsFile, prStable, hbPc>>
         [] ctlPc = "l451" ->
              \* if not self.enabled: continue
              /\ \E ok \in BOOLEAN :
                   /\ global_settings(ok)
                   /\ LET e == hist'[Len(hist')]
                          c == CycAfter(cyc, e)
                      IN  IF e.exc # ""
                            THEN /\ ctlPc' = "dead" /\ ctlExc' = e.exc
                                 /\ cyc' = c
                            ELSE /\ cyc' = [c EXCEPT !.enabledKey =
                                               _global_settings'.enabled]
                                 /\ ctlPc' = IF enabled(_global_settings')
                                               THEN "l342" ELSE "l446"
                                 /\ UNCHANGED ctlExc
              /\ UNCHANGED <<ctlWhen, ctlData, ctlWake, first_time, cmd,
                             build_command, debug_command, tsFile, prStable,
                             hbPc>>
         [] ctlPc \in CommandLines(FALSE) -> CommandStep(FALSE)
         [] ctlPc = "l455" ->
              \* build_command, build_environment = self.build_command
              /\ IF Unpacks(cmd)
                   THEN /\ build_command' = cmd
                        /\ ctlPc' = "l370"
                        /\ UNCHANGED ctlExc
                   ELSE /\ ctlPc' = "dead" /\ ctlExc' = "ValueError"
                        /\ UNCHANGED build_command
              /\ cmd' = <<>>
              /\ UNCHANGED <<builderVars, ctlWhen, ctlData, ctlWake, first_time,
                             debug_command, cyc, tsFile, prStable, hbPc>>
         [] ctlPc \in CommandLines(TRUE) -> CommandStep(TRUE)
         [] ctlPc = "l456" ->
              \* debug_command, debug_environment = self.debug_command
              /\ IF Unpacks(cmd)
                   THEN /\ debug_command' = cmd
                        /\ ctlPc' = "l457"
                        /\ UNCHANGED ctlExc
                   ELSE /\ ctlPc' = "dead" /\ ctlExc' = "ValueError"
                        /\ UNCHANGED debug_command
              /\ cmd' = <<>>
              /\ UNCHANGED <<builderVars, ctlWhen, ctlData, ctlWake, first_time,
                             build_command, cyc, tsFile, prStable, hbPc>>
         [] ctlPc = "l457" ->
              \* if not self.recreation_necessary: continue
              /\ ctlPc' = IF NoRecreation(recreation_necessary)
                            THEN "l446" ELSE "l460"
              /\ cyc' = [cyc EXCEPT !.decided = IF recreation_necessary
                                                  THEN "True" ELSE "False"]
              /\ UNCHANGED <<builderVars, ctlExc, ctlWhen, ctlData, ctlWake,
                             first_time, cmd, build_command, debug_command,
                             tsFile, prStable, hbPc>>
         [] ctlPc \in BuildLines -> BuildStep
         [] ctlPc \in PublishLines -> PublishStep
         [] ctlPc \in RefreshBuildLines -> RefreshBuildStep
         [] ctlPc = "l468" ->
              /\ recreation_necessary' = FALSE
              /\ ctlPc' = "l446"
              /\ UNCHANGED <<_global_settings, _global_settings_timestamp,
                             _cert_path, _bss_script_path, _debug_script_path,
                             _bearer_token, files, hist>>
              /\ UNCHANGED <<ctlExc, ctlWhen, ctlData, ctlWake, first_time, cmd,
                             build_command, debug_command, cyc, tsFile,
                             prStable, hbPc>>

\* threading: MAIN_THREAD.is_alive()
MainThreadAlive == ctlPc # "dead"

(***************************************************************************)
(* liveliness_heartbeat, the thread __call__ starts.  refresh() is         *)
(* ipxeTimestamp.value (setter): data = self._data, open(self.path, 'w'),  *)
(* json.dump.                                                              *)
(***************************************************************************)
\* line 293: ipxeTimestamp.byref(path)
HbByref ==
    /\ hbPc = "l293"
    /\ hbPc' = IF Exists(tsFile) THEN "l295" ELSE "dead"
    /\ UNCHANGED <<hbWhen, hbData, hbWake, tsFile, prStable>>

\* line 295: return when the main thread has ended; else refresh() takes the
\* time it passes to the setter.
HbCheck ==
    /\ hbPc = "l295"
    /\ IF MainThreadAlive
         THEN hbPc' = "l149" /\ hbWhen' = now
         ELSE hbPc' = "done" /\ UNCHANGED hbWhen
    /\ UNCHANGED <<hbData, hbWake, tsFile, prStable>>

\* line 149: data = self._data; line 150: data['timestamp'] = when
HbRead ==
    /\ hbPc = "l149"
    /\ LET data == DataOf(tsFile) IN
         IF data = JSONDecodeError
           THEN hbPc' = "dead" /\ UNCHANGED hbData
           ELSE hbPc' = "l126" /\ hbData' = SetValue(data, hbWhen)
    /\ UNCHANGED <<hbWhen, hbWake, tsFile, prStable>>

\* line 126: open(self.path, 'w')
HbOpen ==
    /\ hbPc = "l126"
    /\ tsFile' = Truncated
    /\ prStable' = FALSE
    /\ hbPc' = "l127"
    /\ UNCHANGED <<hbWhen, hbData, hbWake>>

\* line 127: json.dump and the end of the with block; line 299: time.sleep(10)
HbDump ==
    /\ hbPc = "l127"
    /\ tsFile' = hbData
    /\ prStable' = FALSE
    /\ hbPc' = "l299"
    /\ hbWake' = now + HEARTBEAT_INTERVAL
    /\ UNCHANGED <<hbWhen, hbData>>

\* time.sleep returns
HbWake ==
    /\ hbPc = "l299"
    /\ now >= hbWake
    /\ hbPc' = "l295"
    /\ UNCHANGED <<hbWhen, hbData, hbWake, tsFile, prStable>>

Heartbeat ==
    /\ \/ HbByref
       \/ HbCheck
       \/ HbRead
       \/ HbOpen
       \/ HbDump
       \/ HbWake
    /\ UNCHANGED <<now, ticks, envVars, builderVars, ctlVars,
                   prPc, prNow, prVal, prExpired, prExit, prExc, prLive>>

(***************************************************************************)
(* The environment: the configmaps change, and time passes.                *)
(***************************************************************************)
UpstreamChange ==
    /\ nChanges < MaxChanges
    /\ nChanges' = nChanges + 1
    /\ \/ \E v \in SettingsValues \ {upSettings} :
            upSettings' = v /\ UNCHANGED <<upCert, upBss, upDebug>>
       \/ \E v \in CertValues \ {upCert} :
            upCert' = v /\ UNCHANGED <<upSettings, upBss, upDebug>>
       \/ \E v \in ScriptValues \ {upBss} :
            upBss' = v /\ UNCHANGED <<upSettings, upCert, upDebug>>
       \/ \E v \in DebugValues \ {upDebug} :
            upDebug' = v /\ UNCHANGED <<upSettings, upCert, upBss>>
    \* two reads are in succession only when nothing changed in between
    /\ hist' = <<>>
    /\ UNCHANGED <<_global_settings, _global_settings_timestamp, _cert_path,
                   _bss_script_path, _debug_script_path, _bearer_token,
                   recreation_necessary, files>>
    /\ UNCHANGED <<storeVars, ticks, ctlVars, hbVars, probeVars>>

\* The heartbeat thread is scheduled on time: the clock does not pass the
\* moment its sleep ends, and does not advance while it is running.
HeartbeatAllows(t) ==
    CASE hbPc \in {"unstarted", "done", "dead"} -> TRUE
      [] hbPc = "l299" -> t <= hbWake
      [] OTHER -> FALSE

Tick ==
    /\ now < MaxTime
    /\ LET t == IF hbPc = "l299" /\ hbWake > now
                  THEN Min(now + Quantum, hbWake)
                  ELSE now + Quantum
       IN  /\ HeartbeatAllows(t)
           /\ now' = t
    \* a probe takes less than a step of the clock
    /\ prPc \in {"idle", "exit"}
    /\ prStable' = FALSE
    /\ UNCHANGED <<ticks, tsFile, envVars, builderVars, ctlVars, hbVars,
                   prPc, prNow, prVal, prExpired, prExit, prExc, prLive>>

\* Time passes in the amounts the builder tells apart: a poll interval and
\* the lifetime of the settings cache (one after the other: past it).
Spans == {TIME_BETWEEN_BUILDCHECKS, CONFIGMAP_CACHE_TIMEOUT}
Pass ==
    /\ ticks < MaxTicks
    /\ ticks' = ticks + 1
    /\ \E d \in Spans : now' = now + d
    /\ prStable' = FALSE
    /\ UNCHANGED <<tsFile, envVars, builderVars, ctlVars, hbVars,
                   prPc, prNow, prVal, prExpired, prExit, prExc, prLive>>

ProbeStep ==
    /\ Probe
    /\ UNCHANGED <<ticks, envVars, builderVars, ctlVars, hbVars>>

BuilderInit ==
    /\ _global_settings = NoneSettings
    /\ _global_settings_timestamp = None
    /\ _cert_path = NoPath
    /\ _bss_script_path = NoPath
    /\ _debug_script_path = NoPath
    /\ _bearer_token = NoToken
    /\ recreation_necessary = TRUE
    /\ files = [p \in Paths |-> Unused]
    /\ hist = <<>>

CtlInit ==
    /\ ctlExc = ""
    /\ ctlWhen = None
    /\ ctlData = Record(None, None, None)
    /\ ctlWake = None
    /\ first_time = TRUE
    /\ cmd = <<>>
    /\ build_command = <<>>
    /\ debug_command = <<>>
    /\ cyc = NewCycle(TRUE)

HbInit ==
    /\ hbPc = "unstarted"
    /\ hbWhen = None
    /\ hbData = Record(None, None, None)
    /\ hbWake = None

(***************************************************************************)
(* Spec: the main thread of the service from the start of the process,     *)
(* before the builder is constructed, and the configmaps it reads.  The    *)
(* heartbeat thread and the probe touch nothing the main thread reads      *)
(* before line 462; SpecLive has them.                                     *)
(***************************************************************************)
Init ==
    /\ now = 0
    /\ ticks = 0
    /\ tsFile = Absent
    /\ upSettings \in SettingsValues
    /\ upCert = "A"
    /\ upBss = "A"
    /\ upDebug = "A"
    /\ nChanges = 0
    /\ BuilderInit
    /\ time_limit = IPXE_BUILD_TIME_LIMIT
    /\ CtlInit
    /\ ctlPc = "l74"
    /\ HbInit
    /\ ProbeInit

Next ==
    \/ Call
    \/ UpstreamChange
    \/ Pass

Spec == Init /\ [][Next]_vars

(***************************************************************************)
(* SpecLive: the main thread, the heartbeat thread it starts and the probe *)
(* run at any moment, on a clock the heartbeat keeps up with.  The         *)
(* configmaps do not change.                                               *)
(***************************************************************************)
LiveInit ==
    /\ now = 0
    /\ ticks = 0
    /\ tsFile = Absent
    /\ upSettings \in {DisabledSettings, DefaultSettings}
    /\ upCert = "A"
    /\ upBss = "A"
    /\ upDebug = "A"
    /\ nChanges = 0
    /\ BuilderInit
    /\ time_limit \in MaxAges
    /\ CtlInit
    /\ ctlPc = "l74"
    /\ HbInit
    /\ ProbeInit

LiveNext ==
    \/ Call
    \/ Heartbeat
    \/ ProbeStep
    \/ Tick

SpecLive == LiveInit /\ [][LiveNext]_vars

(***************************************************************************)
(* SpecCache: the tracked properties of a constructed builder, read by a   *)
(* caller in any order while the configmaps change and time passes.  A     *)
(* property that raises leaves the builder as the exception found it.      *)
(***************************************************************************)
ReadProperty ==
    /\ \E ok \in BOOLEAN :
         \/ global_settings(ok)
         \/ cert_path(ok)
         \/ bss_script_path(ok)
         \/ debug_script_path(ok)
    /\ UNCHANGED <<storeVars, ticks, envVars, ctlVars, hbVars, probeVars>>

CacheInit ==
    /\ now = 0
    /\ ticks = 0
    /\ tsFile = Record(0, IPXE_BUILD_TIME_LIMIT, None)
    /\ upSettings \in {EmptySettings, DefaultSettings}
    /\ upCert = "A"
    /\ upBss = "A"
    /\ upDebug = "A"
    /\ nChanges = 0
    /\ BuilderInit
    /\ time_limit = IPXE_BUILD_TIME_LIMIT
    /\ CtlInit
    /\ ctlPc = "l443"
    /\ HbInit
    /\ ProbeInit

CacheNext ==
    \/ ReadProperty
    \/ UpstreamChange
    \/ Pass

SpecCache == CacheInit /\ [][CacheNext]_vars

(***************************************************************************)
(* SpecAlive: the probe applied to every record and clock of a bounded     *)
(* set, with no writer.                                                    *)
(***************************************************************************)
AliveInit ==
    /\ now \in 0..PureMaxTime
    /\ ticks = 0
    /\ upSettings = DefaultSettings /\ upCert = "A" /\ upBss = "A"
    /\ upDebug = "A" /\ nChanges = 0
    /\ BuilderInit
    /\ time_limit \in MaxAges
    /\ CtlInit
    /\ ctlPc = "l443"
    /\ HbInit
    /\ \/ tsFile = Absent
       \/ \E ts \in 0..PureMaxTouched, lb \in {None} \cup 0..PureMaxTime :
             /\ ts <= now
             /\ lb <= now
             /\ tsFile = Record(ts, time_limit, lb)
    /\ ProbeInit

AliveNext == ProbeStep

SpecAlive == AliveInit /\ [][AliveNext]_vars

(***************************************************************************)
(* SpecFair: Spec with a main thread that runs whenever it can.            *)
(***************************************************************************)
SpecFair == Init /\ [][Next]_vars /\ WF_vars(Call)

(***************************************************************************)
(* SpecBuild: the build section of __call__ (lines 460-468) with the       *)
(* heartbeat thread, entered as line 457 enters it when                    *)
(* recreation_necessary is set: the settings, both scripts and a token     *)
(* are held and both commands are given.  In the service as written the    *)
(* unpacking at line 455 raises before line 460 is reached; this           *)
(* specification is of the section by itself, and of the loop after it.    *)
(***************************************************************************)
\* The builder, its record and its threads when the main thread is at line
\* 457 or 460 of a cycle whose reads succeeded.
BuildSectionInit ==
    /\ now = 0
    /\ ticks = 0
    /\ time_limit = IPXE_BUILD_TIME_LIMIT
    /\ tsFile = Record(0, time_limit, None)
    /\ upCert = "A"
    /\ upBss = "A"
    /\ upDebug = "A"
    /\ nChanges = 0
    /\ _global_settings_timestamp = 0
    /\ _cert_path = NoPath
    /\ _bss_script_path = <<"bss", 1>>
    /\ _debug_script_path = <<"debug", 1>>
    /\ _bearer_token = Jwt(LONG_TOKEN_LIFETIME)
    /\ files = [p \in Paths |-> IF p \in {<<"bss", 1>>, <<"debug", 1>>}
                                  THEN "A" ELSE Unused]
    /\ hist = <<>>
    /\ ctlExc = ""
    /\ ctlWhen = None
    /\ ctlData = Record(None, None, None)
    /\ ctlWake = None
    /\ first_time = FALSE
    /\ cmd = <<>>
    /\ build_command = <<"make", "env">>
    /\ debug_command = <<"make", "env">>
    /\ hbPc = "l293"
    /\ hbWhen = None
    /\ hbData = Record(None, None, None)
    /\ hbWake = None
    /\ ProbeInit

BuildInit ==
    /\ upSettings \in {DefaultSettings, CertSettings}
    /\ _global_settings = upSettings
    /\ recreation_necessary = TRUE
    /\ cyc = [NewCycle(TRUE) EXCEPT !.enabledKey = upSettings.enabled]
    /\ ctlPc = "l460"
    /\ BuildSectionInit

BuildNext ==
    \/ Call
    \/ Heartbeat
    \/ Tick

SpecBuild == BuildInit /\ [][BuildNext]_vars

(***************************************************************************)
(* SpecDecide: the same section entered one line earlier, at the test of   *)
(* line 457, with recreation_necessary set or not, and with settings that  *)
(* disable the debug variant.                                              *)
(***************************************************************************)
DecideInit ==
    /\ upSettings \in {DefaultSettings, DebugDisabledSettings}
    /\ _global_settings = upSettings
    /\ recreation_necessary \in BOOLEAN
    /\ cyc = [NewCycle(recreation_necessary) EXCEPT
                 !.enabledKey = upSettings.enabled]
    /\ ctlPc = "l457"
    /\ BuildSectionInit

DecideNext ==
    \/ Call
    \/ Heartbeat
    \/ Tick

SpecDecide == DecideInit /\ [][DecideNext]_vars

(***************************************************************************)
(* SpecSeq: the build section and the heartbeat with the two setters of    *)
(* the record never overlapping: neither thread begins a setter (its read  *)
(* of the record) while the other is between its read and its write.       *)
(***************************************************************************)
\* The main thread is inside the last_build setter, after its read.
CtlInSetter == ctlPc \in {"l462o", "l462d", "l465o", "l465d"}
\* The heartbeat is inside the value setter, after its read.
HbInSetter == hbPc \in {"l126", "l127"}

SeqCall ==
    /\ (ctlPc \in {"l462", "l465"}) => ~HbInSetter
    /\ Call

SeqHeartbeat ==
    /\ (hbPc = "l149") => ~CtlInSetter
    /\ Heartbeat

SeqNext ==
    \/ SeqCall
    \/ SeqHeartbeat
    \/ Tick

SpecSeq == BuildInit /\ [][SeqNext]_vars

(***************************************************************************)
(* SpecMain: the __main__ block of builder.py, which constructs two        *)
(* builders one after the other, and the probe.  Each constructor creates  *)
(* an ipxeTimestamp at LIVENESS_PATH (line 98): open(path, 'w'), then      *)
(* json.dump of a new record.  The other attributes __init__ assigns are   *)
(* attributes of the new object.                                           *)
(***************************************************************************)
MainLines == {"l508", "l508d", "l509", "l509d"}
Main ==
    /\ ctlPc \in MainLines
    /\ CASE ctlPc \in {"l508", "l509"} ->
              /\ ctlWhen' = now
              /\ tsFile' = Truncated
              /\ ctlPc' = IF ctlPc = "l508" THEN "l508d" ELSE "l509d"
         [] ctlPc \in {"l508d", "l509d"} ->
              /\ tsFile' = Record(ctlWhen, time_limit, None)
              /\ ctlPc' = IF ctlPc = "l508d" THEN "l509" ELSE "end"
              /\ UNCHANGED ctlWhen
    /\ prStable' = FALSE
    /\ UNCHANGED <<now, ticks, envVars, builderVars, time_limit, ctlExc,
                   ctlData, ctlWake, first_time, cmd, build_command,
                   debug_command, cyc, hbVars, prPc, prNow, prVal, prExpired,
                   prExit, prExc, prLive>>

MainInit ==
    /\ now = 0
    /\ ticks = 0
    /\ tsFile = Absent
    /\ upSettings = DefaultSettings
    /\ upCert = "A"
    /\ upBss = "A"
    /\ upDebug = "A"
    /\ nChanges = 0
    /\ BuilderInit
    /\ time_limit \in MaxAges
    /\ CtlInit
    /\ ctlPc = "l508"
    /\ HbInit
    /\ ProbeInit

MainNext ==
    \/ Main
    \/ ProbeStep
    \/ Tick

SpecMain == MainInit /\ [][MainNext]_vars

(***************************************************************************)
(* SpecToken: the bearer_token property of a constructed builder, read     *)
(* again and again by a caller while time passes.  The builder holds any   *)
(* of the tokens of TokenInputs when the first read begins.                *)
(***************************************************************************)
TokenLines == {"l350", "l350h", "l350f", "l350a"}

\* One step of the property: lines 319 (token_min_remaining_valid_time and
\* token_expiring_soon), 321 (cray_ipxe_token_host, fetch_token) and 324.
TokenRead ==
    /\ ctlPc \in TokenLines
    /\ Call

\* The property has returned self._bearer_token; the caller reads it again.
ReadAgain ==
    /\ ctlPc = "l455"
    /\ ctlPc' = "l350"
    /\ cmd' = <<>>
    /\ UNCHANGED <<storeVars, ticks, envVars, builderVars, time_limit, ctlExc,
                   ctlWhen, ctlData, ctlWake, first_time, build_command,
                   debug_command, cyc, hbVars, probeVars>>

TokenInit ==
    /\ now = 0
    /\ ticks = 0
    /\ tsFile = Record(0, IPXE_BUILD_TIME_LIMIT, None)
    /\ upSettings \in {DefaultSettings, ShortValiditySettings}
    /\ upCert = "A"
    /\ upBss = "A"
    /\ upDebug = "A"
    /\ nChanges = 0
    /\ _global_settings = NoneSettings
    /\ _global_settings_timestamp = None
    /\ _cert_path = NoPath
    /\ _bss_script_path = NoPath
    /\ _debug_script_path = NoPath
    /\ _bearer_token \in TokenInputs
    /\ recreation_necessary \in BOOLEAN
    /\ files = [p \in Paths |-> Unused]
    /\ hist = <<>>
    /\ time_limit = IPXE_BUILD_TIME_LIMIT
    /\ CtlInit
    /\ ctlPc = "l350"
    /\ HbInit
    /\ ProbeInit

TokenNext ==
    \/ TokenRead
    \/ ReadAgain
    \/ Pass

SpecToken == TokenInit /\ [][TokenNext]_vars

(***************************************************************************)
(* The claims.                                                             *)
(***************************************************************************)
\* The last read of a property.
LastRead == hist[Len(hist)]
\* The cycle has recorded the event.
Did(what) == \E i \in 1..Len(cyc.events) : cyc.events[i] = what
\* The artifacts a property tracks.
Tracked == {"settings", "cert", "bss", "debug"}
\* The copy of an artifact the builder holds.
LocalCopy(kind) ==
    CASE kind = "settings" -> _global_settings
      [] kind = "cert" -> files[_cert_path]
      [] kind = "bss" -> files[_bss_script_path]
      [] kind = "debug" -> files[_debug_script_path]
\* The read found a copy made by an earlier fetch.
HadCopy(e) ==
    IF e.kind = "settings" THEN e.before # NoneSettings ELSE e.before # NoKey

\* C1: recreation_necessary goes from true to false only in the step of
\* line 468 of __call__, in a cycle in which both toolchain invocations
\* succeeded and both artifacts were published; no other step clears it.
C1_ClearedOnlyAfterBuildPair ==
    [][(recreation_necessary /\ ~recreation_necessary') =>
          /\ ctlPc = "l468"
          /\ Did("build") /\ Did("publish")
          /\ Did("debug_build") /\ Did("debug_publish")]_vars

\* An enabled cycle read its artifacts, each read assigning the flag, and
\* ended without a build pair: the flag is still set.
C1_Witness ==
    /\ ctlPc = "dead" /\ ctlExc = "ValueError"
    /\ {"settings", "bss", "token"} \subseteq cyc.assigned
    /\ ~Did("build")
    /\ recreation_necessary

\* C2 as stated: a cycle that finds the builder disabled has issued no
\* remote fetch and leaves recreation_necessary as it found it.
C2_Original ==
    cyc.enabledKey = "False" =>
        /\ cyc.fetched = {}
        /\ recreation_necessary = cyc.flag0

\* C2, amended: a cycle that finds the builder disabled goes back to the top
\* of the loop having fetched nothing but, possibly, the settings; its reads
\* do not clear recreation_necessary, and only a settings read assigns it.
C2_DisabledCycleFetchesOnlySettings ==
    cyc.enabledKey = "False" =>
        /\ ctlPc = "l446"
        /\ cyc.fetched \subseteq {"settings"}
        /\ cyc.assigned \subseteq {"settings"}
        /\ (cyc.flag0 => recreation_necessary)

\* A disabled cycle whose reads fetched the settings.
C2_Witness ==
    /\ cyc.enabledKey = "False"
    /\ ctlPc = "l446"
    /\ cyc.fetched = {"settings"}

\* The exceptions of a failed fetch or a failed toolchain invocation.
Failures ==
    {"ApiException", "KeyError", "TypeError", "AttributeError",
     "FileNotFoundError", "RequestException", "CalledProcessError",
     "AssertionError", "JSONDecodeError"}

\* Settings with which a build pair can be published.
Buildable(settings) ==
    /\ enabled(settings)
    /\ settings.binary_name # "absent"
    /\ settings.debug_binary_name # "absent"

\* C3 as stated, in a form it implies: if no fetch and no toolchain
\* invocation ever fails and the upstream settings always enable the
\* builder and name both artifacts, then whenever the upstream settings differ from the copy the
\* builder cached, the main thread eventually ends a cycle at line 468, both
\* artifacts built and published, holding the upstream settings.
C3_Original ==
    ([](ctlExc \notin Failures) /\ [](Buildable(upSettings))) =>
        []((Truthy(_global_settings) /\ _global_settings # upSettings) =>
              <>(/\ ctlPc = "l468"
                 /\ Did("publish") /\ Did("debug_publish")
                 /\ _global_settings = upSettings))

\* C4 as stated: a probe that began while the main thread was alive and the
\* heartbeat thread running, with max_age above the heartbeat interval, and
\* ends while the main thread is alive, ends with status 0.
C4_Original ==
    (/\ prPc = "exit"
     /\ prLive
     /\ MainThreadAlive
     /\ time_limit > HEARTBEAT_INTERVAL) => prExit = 0

\* A toolchain invocation is under way.
BuildInProgress == ctlPc \in {"l460w", "l463w"}

\* C5 as stated: when no binary is being built, a probe of a record (of a
\* max_age above the heartbeat interval) that did not change while the probe
\* ran ends with status 0.
C5_Original ==
    (/\ prPc = "exit"
     /\ prStable
     /\ tsFile.kind = "json"
     /\ time_limit > HEARTBEAT_INTERVAL
     /\ ~BuildInProgress) => prExit = 0

\* C6: the probe of a record ends with status 0 exactly when the record is
\* not expired (now - touched_at <= max_age) or has a recent build
\* (last_build present and now - last_build < max_age).
C6_AliveIsNotExpiredOrRecentBuild ==
    (prPc = "exit" /\ tsFile.kind = "json") =>
        (prExit = 0) =
            (\/ ~(now - tsFile.timestamp > tsFile.max_age)
             \/ /\ tsFile.last_build # None
                /\ now - tsFile.last_build < tsFile.max_age)

\* The record of max_age 40 created at 0 whose last build was at 40 is
\* alive at 41.
C6_Witness ==
    /\ prPc = "exit"
    /\ now = 41
    /\ tsFile = Record(0, IPXE_BUILD_TIME_LIMIT, 40)
    /\ prExit = 0

\* C7: the value of expired the probe computes is true exactly when
\* now - touched_at > max_age, whatever last_build is.
C7_ExpiredIsStrictlyOlderThanMaxAge ==
    (/\ prPc \in {"last_build1", "last_build2", "last_build3", "last_build4",
                  "max_delta2", "exit"}
     /\ tsFile.kind = "json") =>
        prExpired = (now - tsFile.timestamp > tsFile.max_age)

\* A record with a build whose age equals max_age is not expired.
C7_Witness ==
    /\ prPc = "last_build1"
    /\ tsFile.kind = "json"
    /\ now - tsFile.timestamp = tsFile.max_age
    /\ tsFile.last_build # None
    /\ ~prExpired

\* C8: a probe during which neither the file nor the clock changed ends with
\* status 0 exactly when the file holds a record and the record is alive,
\* and with status 1 otherwise (no file, no record in it, or a dead record).
C8_ExitStatus ==
    (prPc = "exit" /\ prStable) =>
        /\ prExit \in {0, 1}
        /\ (prExit = 0) =
              (/\ tsFile.kind = "json"
               /\ alive(expired(tsFile, now), recent_build(tsFile, now)))

\* The probe of a dead record ended by sys.exit(1).
C8_Witness ==
    /\ prPc = "exit" /\ prStable
    /\ tsFile.kind = "json"
    /\ prExc = ""
    /\ prExit = 1

\* C9 as stated: of two reads of one artifact in succession, both returning,
\* with the remote value unchanged and (for the settings) the second within
\* the TTL of the first's fetch, the second issues no remote fetch and does
\* not assign recreation_necessary.
C9_Original ==
    (/\ Len(hist) = 2
     /\ hist[1].kind \in Tracked
     /\ hist[1].kind = hist[2].kind
     /\ hist[1].exc = "" /\ hist[2].exc = ""
     /\ (hist[1].kind = "settings" =>
            hist[2].t - hist[1].ts <= CONFIGMAP_CACHE_TIMEOUT)) =>
        /\ ~hist[2].fetched
        /\ ~hist[2].setFlag

\* C10: a read that finds a local copy A, fetches and returns does not
\* assign recreation_necessary when the value fetched is A; when it is
\* another value B it assigns the flag and B is the local copy afterwards.
C10_RefetchFlagsExactlyAChange ==
    (/\ hist # <<>>
     /\ LastRead.kind \in Tracked
     /\ LastRead.exc = ""
     /\ LastRead.fetched
     /\ HadCopy(LastRead)) =>
        /\ (LastRead.value = LastRead.before => ~LastRead.setFlag)
        /\ (LastRead.value # LastRead.before =>
               /\ LastRead.setFlag
               /\ recreation_necessary
               /\ LocalCopy(LastRead.kind) = LastRead.value)

\* The settings cached at 0 and changed upstream are fetched again once the
\* cache is older than the TTL.
C10_Witness ==
    /\ hist # <<>>
    /\ LastRead.kind = "settings"
    /\ LastRead.fetched
    /\ Truthy(LastRead.before)
    /\ LastRead.value # LastRead.before
    /\ LastRead.t > CONFIGMAP_CACHE_TIMEOUT
    /\ _global_settings = upSettings

\* How often the cycle has recorded the event.
Count(what) == Cardinality({i \in 1..Len(cyc.events) : cyc.events[i] = what})

\* C11: in a cycle whose primary make ended with status 0 and whose debug
\* make ended with another status, recreation_necessary is still true, the
\* build marker was refreshed once (after the primary was published) and the
\* debug binary was not published.
C11_DebugFailureKeepsFlag ==
    (Did("build") /\ Did("debug_failed")) =>
        /\ recreation_necessary
        /\ Count("refresh_build") = 1
        /\ Did("publish")
        /\ ~Did("debug_publish")

\* The primary was built, published and marked; the debug make failed.
C11_Witness ==
    /\ Did("build") /\ Did("debug_failed")
    /\ ctlPc = "dead"
    /\ recreation_necessary
    /\ Count("refresh_build") = 1

\* C12: once a make has ended with a status other than 0 the main thread
\* has ended with CalledProcessError, and that make is the last thing the
\* cycle did: no make, publish or marker refresh follows, and the flavor
\* that failed was not published.
C12_ToolchainFailureIsFatal ==
    (Did("build_failed") \/ Did("debug_failed")) =>
        /\ ctlPc = "dead"
        /\ ctlExc = "CalledProcessError"
        /\ cyc.events[Len(cyc.events)] \in {"build_failed", "debug_failed"}
        /\ Count("build") + Count("build_failed") = 1
        /\ Count("debug_build") + Count("debug_failed") <= 1
        /\ (Did("build_failed") => cyc.events = <<"build_failed">>)
        /\ ~Did("debug_publish")

\* The primary make failed: nothing was published.
C12_Witness ==
    /\ cyc.events = <<"build_failed">>
    /\ ctlPc = "dead"
    /\ ctlExc = "CalledProcessError"

C15_Original ==
    (ctlPc \in {"l509", "l509d", "end"}) => tsFile.kind = "json"

\* C17 as stated: a read of the settings, a script or the certificate
\* whose remote fetch failed leaves the main thread alive (to fetch again
\* in its next cycle).
C17_Original ==
    (/\ hist # <<>>
     /\ LastRead.kind \in Tracked
     /\ LastRead.fetched
     /\ LastRead.exc \in {"ApiException", "KeyError"}) => MainThreadAlive

\* token_expiring_soon has just returned true (line 319 went on to line
\* 321), or false (line 319 went on to line 324), at the time of the last
\* settings read, for the token the builder holds.
ExpiringSoonWasTrue == ctlPc = "l350h"
ExpiringSoonWasFalse ==
    ctlPc = "l350a" /\ hist # <<>> /\ LastRead.kind = "settings"
\* The remaining validity of the token held exceeds, or is below, the
\* configured minimum at the time of the last settings read.
ValidityAbove ==
    /\ _bearer_token.kind = "jwt" /\ _bearer_token.exp # None
    /\ _bearer_token.exp - LastRead.t >
           token_min_remaining_valid_time(_global_settings)
ValidityBelow ==
    /\ _bearer_token.kind = "jwt" /\ _bearer_token.exp # None
    /\ _bearer_token.exp - LastRead.t <
           token_min_remaining_valid_time(_global_settings)

C19_Original ==
    (ctlPc \in {"l350a", "l378a"}) =>
        /\ _bearer_token.kind = "jwt"
        /\ ~token_expiring_soon(_bearer_token,
                token_min_remaining_valid_time(_global_settings), now)

\* C20: token_expiring_soon is true for no token, for a token that cannot be
\* decoded and for one without 'exp'; it is true when exp - now is below
\* the minimum and false when exp - now is above it.
C20_ExpiringSoonComparesRemainingValidity ==
    (ExpiringSoonWasTrue \/ ExpiringSoonWasFalse) =>
        /\ (_bearer_token.kind # "jwt" \/ _bearer_token.exp = None) =>
               ExpiringSoonWasTrue
        /\ ValidityBelow => ExpiringSoonWasTrue
        /\ ValidityAbove => ExpiringSoonWasFalse

\* exp = now + 1000 with the default minimum of 1800: expiring soon.
C20_Witness ==
    /\ ExpiringSoonWasTrue
    /\ _bearer_token = Jwt(SHORT_TOKEN_LIFETIME)
    /\ LastRead.t = 0
    /\ token_min_remaining_valid_time(_global_settings) =
           DEFAULT_MIN_REMAINING_VALID_TIME

C22_Original ==
    /\ (ctlPc \in {"l455", "l456"}) => Unpacks(cmd)
    /\ ctlExc # "ValueError"

(***************************************************************************)
(* C23: the toolchain is invoked only in a cycle whose tests found the     *)
(* builder enabled (line 451) and recreation_necessary true (line 457); a  *)
(* cycle in which line 457 found the flag false runs no make, publishes    *)
(* nothing and does not refresh the build marker.                          *)
(***************************************************************************)
BuildEvents ==
    {"build", "build_failed", "publish", "refresh_build", "debug_build",
     "debug_failed", "debug_publish"}
InBuildSection ==
    ctlPc \in BuildLines \cup PublishLines \cup RefreshBuildLines \cup {"l468"}
BuildOrder ==
    <<"build", "publish", "refresh_build", "debug_build", "debug_publish",
      "refresh_build">>
IsPrefix(s, t) == Len(s) <= Len(t) /\ \A i \in 1..Len(s) : s[i] = t[i]
Succeeded(e) == e \notin {"build_failed", "debug_failed"}
LastBuildIn(rec) == rec.kind = "json" /\ rec.last_build # None
LastBuildKnown ==
    LastBuildIn(tsFile) \/ LastBuildIn(ctlData) \/ LastBuildIn(hbData)
C25_LastBuildAbsentUntilPublished ==
    [][(~LastBuildKnown /\ LastBuildKnown') =>
          /\ ctlPc = "l462"
          /\ cyc.events = <<"build", "publish">>
          /\ ~LastBuildIn(tsFile')
          /\ LastBuildIn(ctlData')]_vars
C25_Witness ==
    /\ LastBuildIn(tsFile)
    /\ tsFile.last_build = 10
    /\ cyc.events = <<"build", "publish", "refresh_build">>

(***************************************************************************)
(* C26: without a concurrent writer, refresh() changes only the timestamp  *)
(* of the record and refresh_build() only last_build, and max_age keeps    *)
(* the value the record was created with.  Stated on the steps of the two  *)
(* setters: the data a setter is about to write differs from the file it   *)
(* replaces in its own key only, with the time the setter took, and that   *)
(* data is what the file holds when the setter has written.                *)
(***************************************************************************)
C26_SettersChangeOnlyTheirKey ==
    [][/\ (hbPc = "l126" /\ hbPc' = "l127") =>
             /\ tsFile.kind = "json"
             /\ hbData = [tsFile EXCEPT !.timestamp = hbWhen]
       /\ (hbPc = "l127" /\ hbPc' = "l299") => tsFile' = hbData
       /\ (ctlPc \in {"l462o", "l465o"} /\ ctlPc' \in {"l462d", "l465d"}) =>
             /\ tsFile.kind = "json"
             /\ ctlData = [tsFile EXCEPT !.last_build = ctlWhen]
       /\ (ctlPc \in {"l462d", "l465d"} /\ ctlPc' \in {"l463", "l468"}) =>
             tsFile' = ctlData
       /\ (tsFile'.kind = "json") => tsFile'.max_age = time_limit]_vars
C26_Witness ==
    /\ hbPc = "l299"
    /\ tsFile = Record(10, IPXE_BUILD_TIME_LIMIT, 0)
    /\ ctlPc = "l468"

(***************************************************************************)
(* C27: byref and the probe only read.  No step of the probe (byref, the   *)
(* properties alive evaluates, the exit) changes the file at               *)
(* LIVENESS_PATH, whatever the file is at that moment; and byref on a path *)
(* where no file exists ends the probe through ipxeTimestampNoEnt (exit    *)
(* status 1, no other exception) with still no file there.                 *)
(***************************************************************************)
C27_ProbeIsReadOnly ==
    [][(prPc' # prPc) =>
          /\ tsFile' = tsFile
          /\ (prPc = "byref" /\ ~Exists(tsFile)) =>
                /\ prPc' = "exit"
                /\ prExit' = 1
                /\ prExc' = ""
                /\ ~Exists(tsFile')]_vars
C27_Witness ==
    /\ prPc = "exit"
    /\ prExit = 0
    /\ prExc = ""
    /\ prStable
    /\ tsFile = Record(0, time_limit, None)

(***************************************************************************)
(* C28: for the certificate and the two scripts, at most one materialized  *)
(* file exists in the build directory, and the path a read returns is of a *)
(* file whose content is the upstream value that read fetched.  As         *)
(* claimed, for reads that fetched a value (an upstream value is still the  *)
(* one the last read fetched while hist holds that read).                  *)
(***************************************************************************)
Materialized(kind) ==
    {p \in Paths : p[1] = kind /\ files[p] \notin {Unused, NoFile}}
PathOf(kind) ==
    CASE kind = "cert" -> _cert_path
      [] kind = "bss" -> _bss_script_path
      [] kind = "debug" -> _debug_script_path
UpstreamOf(kind) ==
    CASE kind = "cert" -> upCert
      [] kind = "bss" -> upBss
      [] kind = "debug" -> upDebug
C28_Original ==
    /\ \A kind \in Kinds : Cardinality(Materialized(kind)) <= 1
    /\ (/\ hist # <<>>
        /\ LastRead.kind \in Kinds
        /\ LastRead.exc = ""
        /\ UpstreamOf(LastRead.kind) # NoKey) =>
          /\ PathOf(LastRead.kind) # NoPath
          /\ files[PathOf(LastRead.kind)] = UpstreamOf(LastRead.kind)

(***************************************************************************)
(* C29: a recorded path that is not None is the path of an existing file,  *)
(* also after a read that failed, so that no read fails on opening its own *)
(* file.  As claimed.                                                      *)
(***************************************************************************)
C29_Original ==
    /\ \A kind \in Kinds :
          (PathOf(kind) # NoPath) => files[PathOf(kind)] \notin {Unused, NoFile}
    /\ (hist # <<>>) => LastRead.exc # "FileNotFoundError"

C31_EveryIterationButTheFirstWaits ==
    [][/\ (ctlPc = "l448" /\ ctlPc' # "l448") =>
             /\ now' = now
             /\ IF first_time
                  THEN ctlPc' = "l451" /\ ctlWake' = ctlWake
                  ELSE /\ ctlPc' = "l449"
                       /\ ctlWake' = now + TIME_BETWEEN_BUILDCHECKS
       /\ (ctlPc # "l451" /\ ctlPc' = "l451") =>
             \/ ctlPc = "l448" /\ first_time
             \/ /\ ctlPc = "l449"
                /\ ctlWake # None
                /\ now >= ctlWake
       /\ (ctlPc = "l449" /\ ctlPc' # "l449") => ctlPc' = "l451"
       /\ first_time' => first_time]_vars
C31_Witness ==
    /\ ctlPc = "l446"
    /\ cyc.enabledKey = "False"
    /\ ~first_time
    /\ ctlWake = TIME_BETWEEN_BUILDCHECKS
    /\ now >= ctlWake

====
